---- MODULE Spec2Model ----
(***************************************************************************)
(* State-machine model of the RRI crawler (src/rri_crawler.py): the state  *)
(* store (index.json, progress.json, stats.json, articles/), the category  *)
(* traversal of crawl_category, crawl_all and the two crawl modes of main. *)
(* The remote site is a finite link graph; a fetch of a flaky URL fails or *)
(* succeeds nondeterministically, and the process can be killed between    *)
(* any two steps.                                                          *)
(***************************************************************************)
EXTENDS Naturals, Integers, Sequences, FiniteSets, TLC

VARIABLES
    site,            \* which remote link graph is being crawled
    runsLeft,        \* process starts still allowed (model bound)
    index,           \* self.index: url -> IndexEntry
    failed_urls,     \* self.failed_urls
    diskArticles,    \* articles/: filename -> Article record
    diskIndex,       \* index.json: set of IndexEntry
    diskFailed,      \* progress.json: failed_urls
    diskStats,       \* stats.json
    pc,              \* position of the process
    mode,            \* "all" (crawl_all) or "single" (--category)
    cats,            \* categories still to crawl, in list order
    max_pages,       \* page ceiling of this run
    pages_to_visit,  \* crawl_category: the FIFO queue
    visited_pages,   \* crawl_category: visited page URLs
    new_articles,    \* crawl_category: per-category counter
    total_new,       \* crawl_all: sum of the returned counters
    page_url,        \* page being processed
    article_links,   \* article links of the page not yet iterated
    page_links,      \* pagination links of the page
    article_url,     \* article being processed
    ev,              \* observation: what the last step did
    pg,              \* observation: accounting of the page being processed
    answer,          \* observation: first answer of each flaky URL
    chained,         \* observation: this crawl_all follows a completed crawl_all
    same,            \* observation: the site answered every URL identically
    raised,          \* observation: a category raised since the answers were reset
    runFailed,       \* observation: URLs whose fetch failed in this run
    trFetched,       \* observation: pages fetched in this traversal
    trOrder,         \* observation: the page fetches of this traversal, in order
    trEnq,           \* observation: the pages of this traversal by first enqueue
    loadedFailed,    \* observation: FailedURLs as loaded at start
    caught,          \* observation: the exception crawl_all caught last
    due,             \* observation: a checkpoint is due and not yet made
    index_json,      \* store: the raw content of index.json
    progress_json,   \* store: the raw content of progress.json
    sop,             \* store: the last store operation and the files before it
    corpusA,         \* matcher: output/articles, filename -> file
    corpusB,         \* matcher: output_actualitate/articles, filename -> raw text
    mruns,           \* matcher: runs still allowed (model bound)
    mpc,             \* matcher: position of the process
    aromanian_files, \* matcher: corpus-A files not yet processed, sorted
    article_path,    \* matcher: corpus-A file being processed
    image_urls,      \* matcher: image references of the article not yet handled
    romanian_matches,\* matcher: matches collected for the article
    correspondences, \* matcher: records collected in this run
    output,          \* matcher: correspondences.json
    mev,             \* observation: what the last matcher step did
    clean            \* observation: every search completed, this run and the last

vars == <<site, runsLeft, index, failed_urls, diskArticles, diskIndex, diskFailed,
          diskStats, pc, mode, cats, max_pages, pages_to_visit, visited_pages,
          new_articles, total_new, page_url, article_links, page_links,
          article_url, ev, pg, answer, chained, same, raised, runFailed,
          trFetched, trOrder, trEnq, loadedFailed, caught, due, index_json, progress_json, sop,
          corpusA, corpusB, mruns, mpc, aromanian_files, article_path,
          image_urls, romanian_matches, correspondences, output, mev, clean>>

memVars == <<index, failed_urls>>
diskVars == <<diskArticles, diskIndex, diskFailed, diskStats>>
travVars == <<pages_to_visit, visited_pages, new_articles, page_url,
              article_links, page_links, article_url>>
obsVars == <<pg, answer, chained, same, raised, runFailed, trFetched, trOrder, trEnq,
            loadedFailed, caught, due>>
storeVars == <<index_json, progress_json, sop>>
matchVars == <<corpusA, corpusB, mruns, mpc, aromanian_files, article_path,
              image_urls, romanian_matches, correspondences, output, mev, clean>>
(* every variable of the crawler but self.index and self.failed_urls *)
crawlRest == <<site, runsLeft, diskVars, pc, mode, cats, max_pages, total_new,
              travVars, ev, obsVars>>

----------------------------------------------------------------------------
(* Bounds of the model *)
MaxRuns == 2
MaxCeil == 4
NBulk == 10

(* Program constant: the periodic save every 10 new articles *)
SaveEvery == 10

----------------------------------------------------------------------------
(* URLs.  A URL is kept as the parts the code looks at: the section prefix, *)
(* the first path segment after it, the rest of the path, the digits of a  *)
(* trailing -id<digits>.html and the value of a page= parameter.          *)
Section == "ro_ar"

U(cat, slug, id, p) ==
    [sec |-> Section, cat |-> cat, slug |-> slug, id |-> id, pg |-> p]

NoUrl == [sec |-> "", cat |-> "", slug |-> "", id |-> "", pg |-> ""]

K1 == U("actualitati", "", "", "")
K2 == U("actualitati", "focus", "", "")
P2 == U("actualitati", "", "", "2")
P3 == U("actualitati", "", "", "3")
A1 == U("actualitati", "x", "1", "")
A1b == U("actualitati", "focus/x", "1", "")
A2 == U("actualitati", "y", "2", "")
A4 == U("actualitati", "w", "4", "")
Z5 == U("actualitati", "z", "5", "")
Nav == U("despre", "", "", "")
Ext == [sec |-> "en", cat |-> "news", slug |-> "e", id |-> "9", pg |-> ""]

KB == U("bulk", "", "", "")
KB2 == U("bulk", "more", "", "")
PB == U("bulk", "", "", "2")
PC == U("bulk", "", "", "3")
PD == U("bulk", "", "", "4")
B(i) == U("bulk", "b", ToString(i), "")
ZB == U("bulk", "z", "99", "")

(* self.categories of the section being crawled *)
Categories(s) == IF s = "small" THEN <<K2, K1>> ELSE <<KB, KB2>>

(* The anchors of each page of the remote site *)
Anchors(s, p) ==
    IF s = "small"
    THEN CASE p = K1 -> {A1, A1b, A2, P2, P3, Ext, Nav}
           [] p = P2 -> {A2, P3, K1}
           [] p = P3 -> {A4, P2}
           [] p = K2 -> {A1b, A2, Z5}
           [] OTHER -> {}
    ELSE CASE p = KB -> {B(i) : i \in 1..NBulk} \cup {PB, PC}
           [] p = PB -> {B(1), PC, PD}
           [] p = PC -> {ZB}
           [] p = KB2 -> {B(1)}
           [] OTHER -> {}

(* URLs whose fetch can raise requests.RequestException *)
Flaky(s) == IF s = "small" THEN {A2, P2, K2} ELSE {PC}

(* Articles whose processing raises an exception other than RequestException *)
Poison(s) == IF s = "small" THEN {Z5} ELSE {ZB}

----------------------------------------------------------------------------
(* Pure functions of the crawler *)

_is_article_url(u) == u.id # ""

CategoryOf(u) == IF u.sec = Section THEN u.cat ELSE "unknown"

_url_to_filename(u) ==
    [category |-> CategoryOf(u),
     article_id |-> IF u.id # "" THEN u.id ELSE u.slug]

ArticleLinks(s, p) ==
    {u \in Anchors(s, p) : u.sec = Section /\ _is_article_url(u)}

PageLinks(s, p) ==
    {u \in Anchors(s, p) : u.sec = Section /\ ~_is_article_url(u) /\ u.pg # ""}

_extract_article(u) == [url |-> u, category |-> CategoryOf(u)]

IndexEntry(article, filename) ==
    [url |-> article.url, category |-> article.category, filename |-> filename]

IndexUrls == DOMAIN index

EmptyMap == [x \in {} |-> x]

Put(f, k, v) == [x \in DOMAIN f \cup {k} |-> IF x = k THEN v ELSE f[x]]

Range(q) == {q[i] : i \in 1..Len(q)}

Orders(S) ==
    {q \in [1..Cardinality(S) -> S] :
        \A i, j \in 1..Cardinality(S) : q[i] = q[j] => i = j}

Ev(op, u, again, dup) == [op |-> op, url |-> u, refetch |-> again, dup |-> dup]

FetchOps == {"fetch_ok", "fetch_fail"}

----------------------------------------------------------------------------
(* Observations *)

NoPage == [idx0 |-> {}, new0 |-> 0, q0 |-> <<>>, fetches |-> 0, saves |-> 0,
           adds |-> 0, ok |-> TRUE]

NoAnswer(s) == [u \in Flaky(s) |-> "?"]

Res(ok) == IF ok THEN "ok" ELSE "fail"

(* no exception was caught in this run *)
NoCaught == [on |-> FALSE, entries |-> {}, rest |-> <<>>, later |-> <<>>]

(* the answers a fetch of u can get *)
Outcomes(u) == IF u \in Flaky(site) THEN BOOLEAN ELSE {TRUE}

Observe(u, ok) ==
    IF u \in Flaky(site)
    THEN IF answer[u] = "?"
         THEN answer' = [answer EXCEPT ![u] = Res(ok)] /\ same' = same
         ELSE answer' = answer /\ same' = (same /\ answer[u] = Res(ok))
    ELSE answer' = answer /\ same' = same

----------------------------------------------------------------------------
(* The raw content of index.json and progress.json, as _load_state finds it:
   the file is absent, or it cannot be opened or parsed, or it is JSON; the
   items are the elements of the list of index.json, respectively of the
   failed_urls list of progress.json (a progress.json without that key reads
   as the empty list, line 194) *)

NoFile == [state |-> "absent", items |-> <<>>]

Unreadable == [state |-> "unreadable", items |-> <<>>]

Json(items) == [state |-> "json", items |-> items]

NoOp == [op |-> "none", prev |-> "none", index_was |-> NoFile,
         progress_was |-> NoFile]

(* the IndexEntry of an article the crawler indexed *)
EntryOf(u) == IndexEntry(_extract_article(u), _url_to_filename(u))

(* building the IndexEntry from the item and reading its 'url' succeed: the
   item has the fields of IndexEntry, no more and no fewer *)
WellFormed(item) == DOMAIN item = {"url", "category", "filename"}

(* an element of failed_urls that set() cannot hash (a JSON array or object) *)
Unhashable == [list |-> <<>>]

Hashable(x) == x # Unhashable

(* the for loop of _load_state: items are put in the dict one by one, and the
   first item that raises ends the loop (the exception is caught outside it) *)
RECURSIVE LoadItems(_, _)
LoadItems(items, idx) ==
    IF items = <<>> THEN idx
    ELSE IF ~WellFormed(Head(items)) THEN idx
    ELSE LoadItems(Tail(items), Put(idx, Head(items).url, Head(items)))

(* _load_state, first half: self.index of a fresh crawler after the load *)
_load_index(raw) ==
    IF raw.state = "json" THEN LoadItems(raw.items, EmptyMap) ELSE EmptyMap

(* _load_state, second half: self.failed_urls is assigned only when set()
   of the whole list succeeded *)
_load_progress(raw) ==
    IF raw.state = "json" /\ \A i \in 1..Len(raw.items) : Hashable(raw.items[i])
    THEN Range(raw.items)
    ELSE {}

(* what open(path, 'w') and json.dump leave in the file that held old *)
WrittenAppended(old, q) == Json(old.items \o q)

Written(old, q) == Json(q)

----------------------------------------------------------------------------
(* The correspondence matcher (src/find_correspondences.py).  A string is the
   sequence of its characters, the prefix "data:" being one element; a
   filename is modelled by its rank in the ascending order of the names. *)

(* correspondences.json was never written *)
NoOutput == [written |-> FALSE, records |-> <<>>]

NoMev == [op |-> "none", article |-> 0, ref |-> <<>>, outcome |-> "none"]

Mev(op, a, r, o) == [op |-> op, article |-> a, ref |-> r, outcome |-> o]

(* not image_url or image_url.startswith("data:") *)
SkippedOnlyEmpty(r) == r = <<>>

Skipped(r) == IF r = <<>> THEN TRUE ELSE Head(r) = "data:"

(* grep PATTERN: some line of the text has a match of the pattern read as a
   basic regular expression, in which "." stands for any one character *)
GrepMatch(pat, text) ==
    \E o \in 0..(Len(text) - Len(pat)) :
        \A i \in 1..Len(pat) : pat[i] = "." \/ pat[i] = text[o + i]

(* the outcomes of subprocess.run: grep ends, the 30 s timeout expires, or
   an error (an exception, or an exit code other than 0 and 1) *)
SearchOutcomes == {"done", "timeout", "error"}

(* find_romanian_articles_with_image: the basenames grep -rl printed *)
find_romanian_articles_with_image(image_url, outcome) ==
    IF Skipped(image_url) THEN {}
    ELSE IF outcome = "done"
         THEN {f \in DOMAIN corpusB : GrepMatch(image_url, corpusB[f])}
         ELSE {}

(* sorted(): insertion into an ascending list *)
RECURSIVE Insert(_, _)
Insert(x, q) ==
    IF q = <<>> THEN <<x>>
    ELSE IF x <= Head(q) THEN <<x>> \o q
    ELSE <<Head(q)>> \o Insert(x, Tail(q))

RECURSIVE sorted(_)
sorted(q) == IF q = <<>> THEN <<>> ELSE Insert(Head(q), sorted(Tail(q)))

(* sorted(list(romanian_matches)), q being the set as a list *)
MatchListUnsorted(q) == q

MatchList(q) == sorted(q)

(* where a search that did not complete leaves the loop over the references:
   find_romanian_articles_with_image catches the exception, so main goes on *)
AfterSearchPropagates(outcome) == IF outcome = "done" THEN "ref" ELSE "except"

AfterSearch(outcome) == "ref"

----------------------------------------------------------------------------
(* Initial state.  InitRest: what is outside self.index, self.failed_urls
   and the raw files *)

InitRest(s, runs) ==
    /\ site = s
    /\ runsLeft = runs
    /\ diskArticles = EmptyMap
    /\ diskIndex = {}
    /\ diskFailed = {}
    /\ diskStats = [total_articles |-> 0, failed_urls |-> 0]
    /\ pc = "idle"
    /\ mode = "all"
    /\ cats = <<>>
    /\ max_pages = 0
    /\ pages_to_visit = <<>>
    /\ visited_pages = {}
    /\ new_articles = 0
    /\ total_new = 0
    /\ page_url = NoUrl
    /\ article_links = {}
    /\ page_links = {}
    /\ article_url = NoUrl
    /\ ev = Ev("init", NoUrl, FALSE, FALSE)
    /\ pg = NoPage
    /\ answer = NoAnswer(s)
    /\ chained = FALSE
    /\ same = TRUE
    /\ raised = FALSE
    /\ runFailed = {}
    /\ trFetched = {}
    /\ trOrder = <<>>
    /\ trEnq = <<>>
    /\ loadedFailed = {}
    /\ caught = NoCaught
    /\ due = FALSE

(* the raw files are not looked at *)
StoreIdle ==
    /\ index_json = NoFile
    /\ progress_json = NoFile
    /\ sop = NoOp

(* the matcher is not run *)
MatchIdle ==
    /\ corpusA = EmptyMap
    /\ corpusB = EmptyMap
    /\ mruns = 0
    /\ mpc = "idle"
    /\ aromanian_files = <<>>
    /\ article_path = 0
    /\ image_urls = <<>>
    /\ romanian_matches = {}
    /\ correspondences = <<>>
    /\ output = NoOutput
    /\ mev = NoMev
    /\ clean = [this |-> TRUE, last |-> TRUE]

(* a fresh output directory, no process running *)
InitSite(s, runs) ==
    /\ InitRest(s, runs)
    /\ index = EmptyMap
    /\ failed_urls = {}
    /\ StoreIdle
    /\ MatchIdle

Init == InitSite("small", MaxRuns)

(* one run from a fresh output directory *)
InitLive == InitSite("small", 1)

(* the bulk site: one run from a fresh output directory *)
InitBulk == InitSite("bulk", 1)

----------------------------------------------------------------------------
(* State store *)

(* _load_state: index.json into the url -> IndexEntry dict *)
LoadedIndex == [u \in {e.url : e \in diskIndex} |-> CHOOSE e \in diskIndex : e.url = u]

(* _save_index: the entries of the dict *)
SavedIndex == {index[u] : u \in DOMAIN index}

(* _save_stats *)
Stats == [total_articles |-> Cardinality(DOMAIN index),
          failed_urls |-> Cardinality(failed_urls)]

ResetTraversal ==
    /\ pages_to_visit' = <<>>
    /\ visited_pages' = {}
    /\ new_articles' = 0
    /\ page_url' = NoUrl
    /\ article_links' = {}
    /\ page_links' = {}
    /\ article_url' = NoUrl
    /\ pg' = NoPage
    /\ trFetched' = {}
    /\ trOrder' = <<>>
    /\ trEnq' = <<>>

----------------------------------------------------------------------------
(* main: construct the crawler (which loads the state) and pick the mode *)

Start(m, mp, c) ==
    /\ pc \in {"idle", "done"}
    /\ runsLeft > 0
    /\ runsLeft' = runsLeft - 1
    /\ index' = LoadedIndex
    /\ failed_urls' = diskFailed
    /\ loadedFailed' = diskFailed
    /\ mode' = m
    /\ max_pages' = mp
    /\ cats' = IF m = "all" THEN Categories(site) ELSE <<c>>
    /\ total_new' = 0
    /\ pc' = "next_cat"
    /\ LET follows == pc = "done" /\ mode = "all" /\ ev.op = "finish"
                      /\ m = "all" /\ mp = max_pages
       IN /\ chained' = follows
          /\ same' = IF follows THEN same ELSE TRUE
          /\ answer' = IF follows THEN answer ELSE NoAnswer(site)
          /\ raised' = IF follows THEN raised ELSE FALSE
    /\ runFailed' = {}
    /\ caught' = NoCaught
    /\ due' = FALSE
    /\ ev' = Ev("start", NoUrl, FALSE, FALSE)
    /\ ResetTraversal
    /\ UNCHANGED <<storeVars, matchVars, site, diskVars>>

(* crawl_all: every category done *)
Finish ==
    /\ pc = "next_cat"
    /\ cats = <<>>
    /\ pc' = "done"
    /\ ev' = Ev("finish", NoUrl, FALSE, FALSE)
    /\ UNCHANGED <<storeVars, matchVars, site, runsLeft, memVars, diskVars, mode, cats, max_pages,
                   total_new, travVars, obsVars>>

(* the process is killed *)
Crash ==
    /\ pc \notin {"idle", "done"}
    /\ pc' = "idle"
    /\ index' = EmptyMap
    /\ failed_urls' = {}
    /\ cats' = <<>>
    /\ total_new' = 0
    /\ ResetTraversal
    /\ runFailed' = {}
    /\ loadedFailed' = {}
    /\ caught' = NoCaught
    /\ due' = FALSE
    /\ ev' = Ev("crash", NoUrl, FALSE, FALSE)
    /\ UNCHANGED <<storeVars, matchVars, site, runsLeft, diskVars, mode, max_pages, answer, chained,
                   same, raised>>

----------------------------------------------------------------------------
(* crawl_category *)

(* the while condition *)
LoopCondInclusive ==
    pages_to_visit # <<>> /\ Cardinality(visited_pages) <= max_pages

LoopCond ==
    pages_to_visit # <<>> /\ Cardinality(visited_pages) < max_pages

(* visited_pages after the page popped from the queue was fetched *)
VisitedAfterNever(p, ok) == visited_pages

VisitedAfterOnlyOnSuccess(p, ok) ==
    IF ok THEN visited_pages \cup {p} ELSE visited_pages

VisitedAfter(p, ok) == visited_pages \cup {p}

(* the test that skips an article link *)
AlreadyIndexedNever(u) == FALSE

AlreadyIndexedOrFailed(u) == u \in DOMAIN index \/ u \in failed_urls

AlreadyIndexed(u) == u \in DOMAIN index

(* _fetch_page: failed_urls after the fetch of u was answered; a failure adds
   u, a success leaves the set alone *)
FailedAfterCleared(u, ok) ==
    IF ok THEN failed_urls \ {u} ELSE failed_urls \cup {u}

FailedAfter(u, ok) ==
    IF ok THEN failed_urls ELSE failed_urls \cup {u}

(* the queue after the pagination links, taken in the order q, were appended *)
QueueAfterLifo(q) ==
    LET fresh(l) == l \notin visited_pages
    IN SelectSeq(q, fresh) \o pages_to_visit

QueueAfter(q) ==
    LET fresh(l) == l \notin visited_pages
    IN pages_to_visit \o SelectSeq(q, fresh)

(* crawl_all: a category of the list is started; crawl_category sets up *)
BeginCategory ==
    /\ pc = "next_cat"
    /\ cats # <<>>
    /\ pages_to_visit' = <<Head(cats)>>
    /\ visited_pages' = {}
    /\ new_articles' = 0
    /\ trFetched' = {}
    /\ trOrder' = <<>>
    /\ trEnq' = <<Head(cats)>>
    /\ pg' = NoPage
    /\ pc' = "loop"
    /\ ev' = Ev("begin", Head(cats), FALSE, FALSE)
    /\ caught' = IF caught.on
                 THEN [caught EXCEPT !.later = Append(@, Head(cats))]
                 ELSE caught
    /\ UNCHANGED <<storeVars, matchVars, site, runsLeft, memVars, diskVars, mode, cats, max_pages,
                   total_new, page_url, article_links, page_links, article_url,
                   answer, chained, raised, same, runFailed, loadedFailed, due>>

(* the page popped from the queue was visited already *)
SkipVisitedPage ==
    /\ pc = "loop"
    /\ LoopCond
    /\ Head(pages_to_visit) \in visited_pages
    /\ pages_to_visit' = Tail(pages_to_visit)
    /\ ev' = Ev("skip_page", Head(pages_to_visit), FALSE, FALSE)
    /\ UNCHANGED <<storeVars, matchVars, site, runsLeft, memVars, diskVars, pc, mode, cats, max_pages,
                   total_new, visited_pages, new_articles, page_url,
                   article_links, page_links, article_url, obsVars>>

(* the page popped from the queue is marked visited and fetched; on success
   its links are extracted *)
FetchPage(ok) ==
    /\ pc = "loop"
    /\ LoopCond
    /\ Head(pages_to_visit) \notin visited_pages
    /\ LET p == Head(pages_to_visit)
       IN /\ ok \in Outcomes(p)
          /\ pages_to_visit' = Tail(pages_to_visit)
          /\ visited_pages' = VisitedAfter(p, ok)
          /\ Observe(p, ok)
          /\ trFetched' = trFetched \cup {p}
          /\ trOrder' = IF Len(trOrder) <= MaxCeil
                        THEN Append(trOrder, [url |-> p, ok |-> ok])
                        ELSE trOrder
          /\ ev' = Ev(IF ok THEN "fetch_ok" ELSE "fetch_fail", p,
                      p \in runFailed, p \in trFetched)
          /\ IF ok
             THEN /\ page_url' = p
                  /\ article_links' = ArticleLinks(site, p)
                  /\ page_links' = PageLinks(site, p)
                  /\ pg' = [idx0 |-> DOMAIN index, new0 |-> new_articles,
                            q0 |-> Tail(pages_to_visit), fetches |-> 0,
                            saves |-> 0, adds |-> 0, ok |-> TRUE]
                  /\ pc' = "art"
                  /\ UNCHANGED runFailed
             ELSE /\ runFailed' = runFailed \cup {p}
                  /\ UNCHANGED <<page_url, article_links, page_links, pg, pc>>
          /\ failed_urls' = FailedAfter(p, ok)
    /\ UNCHANGED <<storeVars, matchVars, site, runsLeft, index, diskVars, mode, cats, max_pages,
                   total_new, new_articles, article_url, chained, raised,
                   trEnq, loadedFailed, caught, due>>

(* the while loop ends and crawl_category returns new_articles *)
Return ==
    /\ pc = "loop"
    /\ ~LoopCond
    /\ total_new' = IF mode = "all" THEN total_new + new_articles ELSE total_new
    /\ pc' = "save_index"
    /\ ev' = Ev("return", NoUrl, FALSE, FALSE)
    /\ due' = TRUE
    /\ UNCHANGED <<storeVars, matchVars, site, runsLeft, memVars, diskVars, mode, cats, max_pages,
                   travVars, pg, answer, chained, same, raised, runFailed,
                   trFetched, trOrder, trEnq, loadedFailed, caught>>

(* an article link that is in the index is skipped *)
SkipIndexed(u) ==
    /\ pc = "art"
    /\ u \in article_links
    /\ AlreadyIndexed(u)
    /\ article_links' = article_links \ {u}
    /\ ev' = Ev("skip", u, FALSE, FALSE)
    /\ UNCHANGED <<storeVars, matchVars, site, runsLeft, memVars, diskVars, pc, mode, cats, max_pages,
                   total_new, pages_to_visit, visited_pages, new_articles,
                   page_url, page_links, article_url, obsVars>>

(* an article link that is not in the index is fetched *)
FetchArticle(u, ok) ==
    /\ pc = "art"
    /\ u \in article_links
    /\ ~AlreadyIndexed(u)
    /\ ok \in Outcomes(u)
    /\ article_links' = article_links \ {u}
    /\ Observe(u, ok)
    /\ ev' = Ev(IF ok THEN "fetch_ok" ELSE "fetch_fail", u, u \in runFailed, FALSE)
    /\ IF ok
       THEN /\ article_url' = u
            /\ pc' = "extract"
            /\ pg' = [pg EXCEPT !.fetches = @ + 1]
            /\ UNCHANGED runFailed
       ELSE /\ runFailed' = runFailed \cup {u}
            /\ pg' = [pg EXCEPT !.fetches = @ + 1, !.ok = FALSE]
            /\ UNCHANGED <<article_url, pc>>
    /\ failed_urls' = FailedAfter(u, ok)
    /\ UNCHANGED <<storeVars, matchVars, site, runsLeft, index, diskVars, mode, cats, max_pages,
                   total_new, pages_to_visit, visited_pages, new_articles,
                   page_url, page_links, chained, raised, trFetched, trOrder, trEnq,
                   loadedFailed, caught, due>>

(* the article loop is over: the pagination links not yet visited are
   appended to the queue, in the order the set of links is iterated *)
Enqueue ==
    /\ pc = "art"
    /\ article_links = {}
    /\ \E q \in Orders(page_links) :
          /\ pages_to_visit' = QueueAfter(q)
          /\ LET first(l) == l \notin visited_pages /\ l \notin Range(trEnq)
             IN trEnq' = trEnq \o SelectSeq(q, first)
    /\ pc' = "loop"
    /\ ev' = Ev("enqueue", page_url, FALSE, FALSE)
    /\ UNCHANGED <<storeVars, matchVars, site, runsLeft, memVars, diskVars, mode, cats, max_pages,
                   total_new, visited_pages, new_articles, page_url,
                   article_links, page_links, article_url, pg, answer, chained,
                   same, raised, runFailed, trFetched, trOrder, loadedFailed,
                   caught, due>>

(* articles/ after _save_article wrote the record a under the filename f *)
StoredAfterLost(f, a) == diskArticles

StoredAfter(f, a) == Put(diskArticles, f, a)

(* new_articles after an article was indexed *)
CountAfterStuck(n) == n

CountAfter(n) == n + 1

(* where an exception raised inside crawl_category takes the process:
   crawl_all catches and logs it and goes on to the saves of the category;
   main in single-category mode does not catch it and the process exits *)
AfterRaiseUncaught(m) == "done"

AfterRaise(m) == IF m = "all" THEN "save_index" ELSE "done"

(* processing the fetched article raises *)
RaiseInCategory ==
    /\ pc = "extract"
    /\ article_url \in Poison(site)
    /\ pc' = AfterRaise(mode)
    /\ caught' = IF mode = "all"
                 THEN [on |-> TRUE, entries |-> SavedIndex, rest |-> Tail(cats),
                       later |-> <<>>]
                 ELSE caught
    /\ ev' = Ev("raise", article_url, FALSE, FALSE)
    /\ pg' = [pg EXCEPT !.ok = FALSE]
    /\ raised' = TRUE
    /\ due' = TRUE
    /\ UNCHANGED <<storeVars, matchVars, site, runsLeft, memVars, diskVars, mode, cats, max_pages,
                   total_new, travVars, answer, chained, same, runFailed,
                   trFetched, trOrder, trEnq, loadedFailed>>

(* _extract_article and _save_article: the record is written *)
SaveArticle ==
    /\ pc = "extract"
    /\ article_url \notin Poison(site)
    /\ LET article == _extract_article(article_url)
       IN diskArticles' = StoredAfter(_url_to_filename(article.url), article)
    /\ pc' = "add"
    /\ ev' = Ev("save_article", article_url, FALSE, FALSE)
    /\ pg' = [pg EXCEPT !.saves = @ + 1]
    /\ UNCHANGED <<storeVars, matchVars, site, runsLeft, memVars, diskIndex, diskFailed, diskStats,
                   mode, cats, max_pages, total_new, travVars, answer, chained, raised,
                   same, runFailed, trFetched, trOrder, trEnq, loadedFailed, caught, due>>

(* where the process goes after an article was indexed: to the periodic save
   when the counter is a multiple of 10, else on with the article loop *)
AfterAddNoFlush(n) == "art"

AfterAdd(n) == IF n % SaveEvery = 0 THEN "psave_index" ELSE "art"

(* the IndexEntry is added and the counter incremented *)
AddToIndex ==
    /\ pc = "add"
    /\ LET article == _extract_article(article_url)
       IN index' = Put(index, article_url,
                       IndexEntry(article, _url_to_filename(article.url)))
    /\ new_articles' = CountAfter(new_articles)
    /\ pc' = AfterAdd(new_articles')
    /\ due' = IF (pg.adds + pg.new0 + 1) % 10 = 0 THEN TRUE ELSE due
    /\ ev' = Ev("add", article_url, FALSE, FALSE)
    /\ pg' = [pg EXCEPT !.adds = @ + 1]
    /\ UNCHANGED <<storeVars, matchVars, site, runsLeft, failed_urls, diskVars, mode, cats, max_pages,
                   total_new, pages_to_visit, visited_pages, page_url,
                   article_links, page_links, article_url, answer, chained, raised,
                   same, runFailed, trFetched, trOrder, trEnq, loadedFailed, caught>>

----------------------------------------------------------------------------
(* _save_index and _save_progress, called as the periodic save inside the
   article loop and as the saves after a category: crawl_all after each
   category (also after an exception), main after the single category *)

SaveIndex ==
    /\ pc \in {"psave_index", "save_index"}
    /\ diskIndex' = SavedIndex
    /\ ev' = Ev(pc, NoUrl, FALSE, FALSE)
    /\ IF pc = "psave_index"
       THEN /\ pc' = "psave_progress"
            /\ UNCHANGED <<travVars, pg, trFetched, trOrder, trEnq>>
       ELSE /\ pc' = "save_progress"
            /\ ResetTraversal
    /\ UNCHANGED <<storeVars, matchVars, site, runsLeft, memVars, diskArticles, diskFailed, diskStats,
                   mode, cats, max_pages, total_new, answer, chained, raised, same,
                   runFailed, loadedFailed, caught, due>>

SaveProgress ==
    /\ pc \in {"psave_progress", "save_progress"}
    /\ diskFailed' = failed_urls
    /\ pc' = IF pc = "psave_progress" THEN "art" ELSE "save_stats"
    /\ ev' = Ev(pc, NoUrl, FALSE, FALSE)
    /\ due' = IF diskIndex = SavedIndex THEN FALSE ELSE due
    /\ UNCHANGED <<storeVars, matchVars, site, runsLeft, memVars, diskArticles, diskIndex, diskStats,
                   mode, cats, max_pages, total_new, travVars, pg, answer,
                   chained, same, raised, runFailed, trFetched, trOrder, trEnq, loadedFailed,
                   caught>>

(* _save_stats, and the end of the category *)
SaveStats ==
    /\ pc = "save_stats"
    /\ diskStats' = Stats
    /\ cats' = Tail(cats)
    /\ pc' = IF mode = "all" THEN "next_cat" ELSE "done"
    /\ ev' = Ev("save_stats", NoUrl, FALSE, FALSE)
    /\ UNCHANGED <<storeVars, matchVars, site, runsLeft, memVars, diskArticles, diskIndex, diskFailed,
                   mode, max_pages, total_new, travVars, obsVars>>

----------------------------------------------------------------------------
Ceilings == 0..MaxCeil

Next ==
    \/ \E m \in {"all", "single"}, mp \in Ceilings, c \in Range(Categories(site)) :
          Start(m, mp, c)
    \/ BeginCategory
    \/ SkipVisitedPage
    \/ \E ok \in BOOLEAN : FetchPage(ok)
    \/ Return
    \/ \E u \in article_links : SkipIndexed(u)
    \/ \E u \in article_links, ok \in BOOLEAN : FetchArticle(u, ok)
    \/ Enqueue
    \/ RaiseInCategory
    \/ SaveArticle
    \/ AddToIndex
    \/ SaveIndex
    \/ SaveProgress
    \/ SaveStats
    \/ Finish
    \/ Crash

Spec == Init /\ [][Next]_vars

SpecBulk == InitBulk /\ [][Next]_vars

(* The steps of a started run: the process is sequential and every step ends
   (a fetch ends within its timeout), so a run that is not killed goes on *)
RunStep ==
    \/ BeginCategory
    \/ SkipVisitedPage
    \/ \E ok \in BOOLEAN : FetchPage(ok)
    \/ Return
    \/ \E u \in article_links : SkipIndexed(u)
    \/ \E u \in article_links, ok \in BOOLEAN : FetchArticle(u, ok)
    \/ Enqueue
    \/ RaiseInCategory
    \/ SaveArticle
    \/ AddToIndex
    \/ SaveIndex
    \/ SaveProgress
    \/ SaveStats
    \/ Finish

SpecLive == InitLive /\ [][Next]_vars /\ WF_vars(RunStep)

----------------------------------------------------------------------------
(* The state store on its own: a crawler holding any index and failed URLs it
   can hold, over files left in any condition; the pair of saves, and the
   load of a freshly constructed crawler *)

MaxItems == 2

StoreUrls == {A1, A2}

SeqsUpTo(S, n) == UNION {[1..k -> S] : k \in 0..n}

RawIndexFiles ==
    {NoFile, Unreadable} \cup
    {Json(q) : q \in SeqsUpTo({EntryOf(u) : u \in StoreUrls} \cup {[url |-> A1]},
                              MaxItems)}

RawProgressFiles ==
    {NoFile, Unreadable} \cup
    {Json(q) : q \in SeqsUpTo(StoreUrls \cup {Unhashable}, MaxItems)}

InitStore ==
    /\ InitRest("small", 0)
    /\ index \in {[u \in S |-> EntryOf(u)] : S \in SUBSET StoreUrls}
    /\ failed_urls \in SUBSET StoreUrls
    /\ index_json \in RawIndexFiles
    /\ progress_json \in RawProgressFiles
    /\ sop = NoOp
    /\ MatchIdle

(* _save_index then _save_progress: the values of the dict, and the set as a
   list, each in the order it is iterated *)
StoreSave ==
    /\ \E q \in Orders(SavedIndex) : index_json' = Written(index_json, q)
    /\ \E q \in Orders(failed_urls) : progress_json' = Written(progress_json, q)
    /\ sop' = [op |-> "saved", prev |-> sop.op, index_was |-> index_json,
               progress_was |-> progress_json]
    /\ UNCHANGED <<index, failed_urls, crawlRest, matchVars>>

(* RRICrawler(): a fresh crawler, empty index and failed URLs, runs _load_state *)
StoreLoad ==
    /\ index' = _load_index(index_json)
    /\ failed_urls' = _load_progress(progress_json)
    /\ sop' = [sop EXCEPT !.op = "loaded", !.prev = sop.op]
    /\ UNCHANGED <<index_json, progress_json, crawlRest, matchVars>>

NextStore ==
    \/ StoreSave
    \/ StoreLoad

SpecStore == InitStore /\ [][NextStore]_vars

----------------------------------------------------------------------------
(* The correspondence matcher: main of src/find_correspondences.py, run over
   two article directories that exist and do not change *)

MaxRefs == 2

MatchRuns == 2

(* image references: the empty string, an inline image, and two URLs, one of
   them with a "." *)
RefPool == {<<>>, <<"data:", "a", "b">>, <<"a", "b">>, <<"a", ".">>}

(* a corpus-A file: JSON with a list of image references, or not JSON *)
ArticleFile(refs) == [parses |-> TRUE, image_urls |-> refs]

NotJson == [parses |-> FALSE, image_urls |-> <<>>]

CorporaA ==
    {[f \in {1, 2} |-> IF f = 1 THEN x ELSE y] :
        x \in {ArticleFile(q) : q \in SeqsUpTo(RefPool, MaxRefs)},
        y \in {NotJson, ArticleFile(<<>>), ArticleFile(<<<<"a", "b">>>>)}}

(* the raw text of the corpus-B files *)
CorporaB ==
    {[f \in {1, 2} |-> IF f = 1 THEN <<"x", "a", "b">> ELSE t] :
        t \in {<<"a", ".", "x">>, <<"c">>, <<"data:", "a", "b">>}}

InitMatch ==
    /\ InitRest("small", 0)
    /\ index = EmptyMap
    /\ failed_urls = {}
    /\ StoreIdle
    /\ corpusA \in CorporaA
    /\ corpusB \in CorporaB
    /\ mruns = MatchRuns
    /\ mpc = "idle"
    /\ aromanian_files = <<>>
    /\ article_path = 0
    /\ image_urls = <<>>
    /\ romanian_matches = {}
    /\ correspondences = <<>>
    /\ output = NoOutput
    /\ mev = NoMev
    /\ clean = [this |-> TRUE, last |-> TRUE]

crawlVars == <<index, failed_urls, crawlRest>>

(* main starts: the sorted list of the corpus-A files, glob giving them as
   the list q *)
MatchStart ==
    /\ mpc \in {"idle", "done"}
    /\ mruns > 0
    /\ mruns' = mruns - 1
    /\ \E q \in Orders(DOMAIN corpusA) : aromanian_files' = sorted(q)
    /\ correspondences' = <<>>
    /\ article_path' = 0
    /\ image_urls' = <<>>
    /\ romanian_matches' = {}
    /\ mpc' = "article"
    /\ mev' = Mev("start", 0, <<>>, "none")
    /\ clean' = [this |-> TRUE, last |-> clean.this]
    /\ UNCHANGED <<corpusA, corpusB, output, crawlVars, storeVars>>

(* the next file is opened and parsed; a file that is not JSON raises *)
OpenArticle ==
    /\ mpc = "article"
    /\ aromanian_files # <<>>
    /\ LET a == Head(aromanian_files)
       IN /\ article_path' = a
          /\ romanian_matches' = {}
          /\ IF corpusA[a].parses
             THEN /\ image_urls' = corpusA[a].image_urls
                  /\ mpc' = "ref"
             ELSE /\ image_urls' = <<>>
                  /\ mpc' = "except"
          /\ mev' = Mev("open", a, <<>>, "none")
    /\ UNCHANGED <<corpusA, corpusB, mruns, aromanian_files, correspondences,
                   output, clean, crawlVars, storeVars>>

(* the except clauses of the loop over the files: the error is printed and
   the loop goes on with the next file *)
ArticleError ==
    /\ mpc = "except"
    /\ aromanian_files' = Tail(aromanian_files)
    /\ mpc' = "article"
    /\ mev' = Mev("article_error", article_path, <<>>, "none")
    /\ UNCHANGED <<corpusA, corpusB, mruns, article_path, image_urls,
                   romanian_matches, correspondences, output, clean, crawlVars,
                   storeVars>>

(* an empty or inline image reference: continue *)
SkipRef ==
    /\ mpc = "ref"
    /\ image_urls # <<>>
    /\ Skipped(Head(image_urls))
    /\ image_urls' = Tail(image_urls)
    /\ mev' = Mev("skip", article_path, Head(image_urls), "none")
    /\ UNCHANGED <<corpusA, corpusB, mruns, mpc, aromanian_files, article_path,
                   romanian_matches, correspondences, output, clean, crawlVars,
                   storeVars>>

(* grep is run for the reference and its matches are added to the set *)
SearchRef(outcome) ==
    /\ mpc = "ref"
    /\ image_urls # <<>>
    /\ ~Skipped(Head(image_urls))
    /\ romanian_matches' = romanian_matches \cup
            find_romanian_articles_with_image(Head(image_urls), outcome)
    /\ image_urls' = Tail(image_urls)
    /\ mpc' = AfterSearch(outcome)
    /\ mev' = Mev("search", article_path, Head(image_urls), outcome)
    /\ clean' = [clean EXCEPT !.this = @ /\ outcome = "done"]
    /\ UNCHANGED <<corpusA, corpusB, mruns, aromanian_files, article_path,
                   correspondences, output, crawlVars, storeVars>>

(* the references are done: a record is appended if there are matches *)
EndArticle ==
    /\ mpc = "ref"
    /\ image_urls = <<>>
    /\ \E q \in Orders(romanian_matches) :
          correspondences' =
              IF romanian_matches # {}
              THEN Append(correspondences,
                          [aromanian_article |-> article_path,
                           romanian_articles |-> MatchList(q)])
              ELSE correspondences
    /\ aromanian_files' = Tail(aromanian_files)
    /\ mpc' = "article"
    /\ mev' = Mev("end_article", article_path, <<>>, "none")
    /\ UNCHANGED <<corpusA, corpusB, mruns, article_path, image_urls,
                   romanian_matches, output, clean, crawlVars, storeVars>>

(* every file was processed: correspondences.json is written *)
WriteOutput ==
    /\ mpc = "article"
    /\ aromanian_files = <<>>
    /\ output' = [written |-> TRUE, records |-> correspondences]
    /\ mpc' = "done"
    /\ mev' = Mev("write", 0, <<>>, "none")
    /\ UNCHANGED <<corpusA, corpusB, mruns, aromanian_files, article_path,
                   image_urls, romanian_matches, correspondences, clean,
                   crawlVars, storeVars>>

(* the steps of a started run *)
MatchStep ==
    \/ OpenArticle
    \/ ArticleError
    \/ SkipRef
    \/ \E o \in SearchOutcomes : SearchRef(o)
    \/ EndArticle
    \/ WriteOutput

NextMatch ==
    \/ MatchStart
    \/ OpenArticle
    \/ ArticleError
    \/ SkipRef
    \/ \E o \in SearchOutcomes : SearchRef(o)
    \/ EndArticle
    \/ WriteOutput

SpecMatch == InitMatch /\ [][NextMatch]_vars

(* the matcher is one sequential process and every step ends (grep within
   its timeout), so a started run goes on *)
SpecMatchLive == InitMatch /\ [][NextMatch]_vars /\ WF_vars(MatchStep)

----------------------------------------------------------------------------
(* Claims *)

(* C1: idempotence of the traversal.  In a crawl_all that follows a completed
   crawl_all with the same ceiling, starts from the state that run persisted
   and gets from the site the answers the first run got (no category
   having raised), no IndexEntry is added: every crawl_category returns 0. *)
C1_SecondRunAddsNothing ==
    (chained /\ same /\ ~raised) => (new_articles = 0 /\ total_new = 0 /\ ev.op # "add")


(* C2: no-orphan invariant.  In every state, also between any two steps and
   after a kill and a restart, every IndexEntry of the in-memory index and
   every entry of index.json has a record in articles/ under its filename. *)
C2_NoOrphanEntry ==
    /\ \A u \in DOMAIN index : index[u].filename \in DOMAIN diskArticles
    /\ \A e \in diskIndex : e.filename \in DOMAIN diskArticles

(* a restart that loaded entries while articles/ holds a record the loaded
   index does not know (the trace of a stop before a flush) *)
C2_Witness ==
    /\ ev.op = "start"
    /\ DOMAIN index # {}
    /\ \E f \in DOMAIN diskArticles : diskArticles[f].url \notin DOMAIN index

(* the records of articles/ whose URL has no entry in index.json *)
Unindexed ==
    {f \in DOMAIN diskArticles : diskArticles[f].url \notin {e.url : e \in diskIndex}}

(* C3: checkpoint bound.  In a run from a fresh output directory (every
   stored record indexed, there being none), at every point at which the
   process can be killed, at most 9 records of articles/ have a URL with no
   entry in index.json. *)
C3_AtMostNineUnindexed == Cardinality(Unindexed) <= 9

(* C4: no fetch is issued for an article URL that is in the index, and a
   skipped article link writes neither to storage nor to the index. *)
C4_NoFetchOfIndexed ==
    /\ [](ev.op \in FetchOps /\ _is_article_url(ev.url) => ev.url \notin DOMAIN index)
    /\ [][ev'.op = "skip" => UNCHANGED <<index, failed_urls, diskVars>>]_vars

(* an entry loaded from the previous run is skipped in the first category,
   before anything was added in this run *)
C4_Witness ==
    /\ ev.op = "skip"
    /\ mode = "all"
    /\ cats = Categories(site)
    /\ new_articles = 0
    /\ ev.url \in {e.url : e \in diskIndex}

(* C5: per-page accounting.  When a fetched page whose article fetches all
   succeeded has been processed, the article fetches issued, the records
   written, the IndexEntries added and the increase of new_articles all equal
   the number of article links of the page that were not in the index, and
   the queue got every pagination link of the page not yet visited. *)
C5_PageAccounting ==
    (ev.op = "enqueue" /\ pg.ok) =>
        LET fresh == ArticleLinks(site, page_url) \ pg.idx0
            n == Cardinality(fresh)
            added == PageLinks(site, page_url) \ visited_pages
            k == Len(pg.q0)
        IN /\ pg.fetches = n
           /\ pg.saves = n
           /\ pg.adds = n
           /\ new_articles - pg.new0 = n
           /\ fresh \subseteq DOMAIN index
           /\ \A u \in fresh : _url_to_filename(u) \in DOMAIN diskArticles
           /\ Len(pages_to_visit) = k + Cardinality(added)
           /\ SubSeq(pages_to_visit, 1, k) = pg.q0
           /\ {pages_to_visit[i] : i \in k + 1 .. Len(pages_to_visit)} = added

(* a page with three article links, two of them new and one indexed, and
   pagination links that are enqueued *)
C5_Witness ==
    /\ ev.op = "enqueue"
    /\ pg.ok
    /\ Cardinality(ArticleLinks(site, page_url)) = 3
    /\ Cardinality(ArticleLinks(site, page_url) \cap pg.idx0) = 1
    /\ pg.adds = 2
    /\ Len(pages_to_visit) > Len(pg.q0)

(* C6: no retry within a run.  A URL whose fetch failed in this run is not
   fetched again in this run. *)
C6_NoRefetchOfFailed == ev.op \in FetchOps => ~ev.refetch

(* C7: FailedURLs never blocks discovery.  An article link is skipped only
   when it is in the index; a link not in the index is fetched, whether or
   not it is in FailedURLs; after a successful fetch the record is written
   and then the entry is added. *)
C7_FailedNeverBlocks ==
    /\ [](ev.op = "skip" => ev.url \in DOMAIN index)
    /\ [][(pc = "art" /\ article_links' # article_links /\ ev'.op # "crash") =>
            \E u \in article_links :
                /\ article_links' = article_links \ {u}
                /\ ev'.url = u
                /\ u \in DOMAIN index => ev'.op = "skip"
                /\ u \notin DOMAIN index => ev'.op \in FetchOps]_vars
    /\ [][(pc = "extract" /\ article_url \notin Poison(site) /\ ev'.op # "crash") =>
            /\ ev'.op = "save_article"
            /\ _url_to_filename(article_url) \in DOMAIN diskArticles'
            /\ diskArticles'[_url_to_filename(article_url)].url = article_url]_vars
    /\ [][(pc = "add" /\ ev'.op # "crash") =>
            /\ ev'.op = "add"
            /\ article_url \in DOMAIN index'
            /\ index'[article_url].filename = _url_to_filename(article_url)]_vars

(* a URL of the loaded FailedURLs is fetched, stored and indexed *)
C7_Witness ==
    /\ ev.op = "add"
    /\ ev.url \in loadedFailed
    /\ ev.url \in DOMAIN index
    /\ _url_to_filename(ev.url) \in DOMAIN diskArticles

(* C8: within one traversal each page URL is fetched at most once. *)
C8_PageFetchedOnce ==
    (ev.op \in FetchOps /\ ~_is_article_url(ev.url)) => ~ev.dup

(* a page whose fetch failed comes off the queue again and is not fetched *)
C8_Witness ==
    /\ ev.op = "skip_page"
    /\ ev.url \in runFailed
    /\ ev.url \in trFetched


(* the process is inside crawl_category *)
InTraversal == pc \in {"loop", "art", "extract", "add", "psave_index", "psave_progress"}

(* C9: termination.  A crawl_category traversal ends, and when its loop ends
   the queue is empty or the number of visited pages equals the ceiling. *)
C9_TraversalTerminates ==
    /\ InTraversal ~> ~InTraversal
    /\ [](ev.op = "return" =>
            pages_to_visit = <<>> \/ Cardinality(visited_pages) = max_pages)

(* the loop ends at the ceiling with pages still queued *)
C9_Witness ==
    /\ ev.op = "return"
    /\ max_pages > 0
    /\ pages_to_visit # <<>>
    /\ Cardinality(visited_pages) = max_pages

(* C10: flush before exit.  When a run has ended, index.json holds the
   in-memory index and progress.json the in-memory FailedURLs. *)
C10_FlushedAtExit ==
    pc = "done" => (diskIndex = SavedIndex /\ diskFailed = failed_urls)

(* C11: category-level exception containment.  When crawl_all catches an
   exception raised in a category, the IndexEntries that were in the Index
   stay in it and are in index.json when that category has ended; the later
   categories of the list are then crawled, in list order, before the run
   ends; and the run does go on to its end unless the process is killed. *)
C11_ExceptionContained ==
    /\ [](caught.on => caught.entries \subseteq SavedIndex)
    /\ [](caught.on /\ pc = "next_cat" /\ caught.later = <<>> =>
            /\ diskIndex = SavedIndex
            /\ diskFailed = failed_urls
            /\ cats = caught.rest)
    /\ [](caught.on => /\ Len(caught.later) <= Len(caught.rest)
                       /\ caught.later = SubSeq(caught.rest, 1, Len(caught.later)))
    /\ [](caught.on /\ pc = "done" => caught.later = caught.rest)
    /\ (caught.on /\ pc # "done") ~> (pc \in {"done", "idle"})

(* an exception was caught after an entry had been added, and the category
   after it in the list was crawled before the run ended *)
C11_Witness ==
    /\ caught.on
    /\ pc = "done"
    /\ caught.entries # {}
    /\ caught.rest # <<>>
    /\ caught.later = caught.rest
    /\ caught.entries \subseteq diskIndex

(* index.json, respectively progress.json, is absent, unreadable or has a
   malformed entry at some position *)
IndexCorrupt(raw) ==
    raw.state # "json" \/ \E i \in 1..Len(raw.items) : ~WellFormed(raw.items[i])

ProgressCorrupt(raw) ==
    raw.state # "json" \/ \E i \in 1..Len(raw.items) : ~Hashable(raw.items[i])

(* C12: load of corrupt state.  After the load of a fresh crawler, if
   index.json was absent, unreadable or had a malformed entry at any position
   the Index is empty, and likewise FailedURLs for progress.json. *)
C12_CorruptLoadsEmpty ==
    sop.op = "loaded" =>
        /\ IndexCorrupt(index_json) => index = EmptyMap
        /\ ProgressCorrupt(progress_json) => failed_urls = {}

(* C13: full-overwrite snapshot.  After the pair of saves the files read back
   as the Index and FailedURLs that are in memory, whatever the files held
   before, and a fresh crawler that loads them has exactly those. *)
C13_SnapshotRoundTrip ==
    /\ [](sop.op = "saved" =>
            /\ _load_index(index_json) = index
            /\ _load_progress(progress_json) = failed_urls)
    /\ [][(sop.op = "saved" /\ sop'.op = "loaded") =>
            (index' = index /\ failed_urls' = failed_urls)]_vars

(* a load after a save over files that held an entry and a failed URL that
   were not in memory: neither is back *)
C13_Witness ==
    /\ sop.op = "loaded"
    /\ sop.prev = "saved"
    /\ index # EmptyMap
    /\ failed_urls # {}
    /\ \E i \in 1..Len(sop.index_was.items) :
          /\ WellFormed(sop.index_was.items[i])
          /\ sop.index_was.items[i].url \notin DOMAIN index
    /\ \E i \in 1..Len(sop.progress_was.items) :
          /\ Hashable(sop.progress_was.items[i])
          /\ sop.progress_was.items[i] \notin failed_urls

(* C14: create-once lifecycle.  Once a URL has an IndexEntry and its Article
   record is in storage, no step of the run rewrites that record file or
   changes or removes that entry, and neither does a later run for the
   entries of index.json. *)
C14_CreateOnce ==
    [][/\ \A e \in diskIndex :
            /\ e \in diskIndex'
            /\ diskArticles'[e.filename] = diskArticles[e.filename]
       /\ ev'.op \notin {"crash", "start"} =>
            \A u \in DOMAIN index :
                /\ u \in DOMAIN index'
                /\ index'[u] = index[u]
                /\ diskArticles'[index[u].filename] = diskArticles[index[u].filename]
      ]_vars

(* the text contains the reference as a literal substring *)
Contains(pat, text) ==
    \E o \in 0..(Len(text) - Len(pat)) :
        \A i \in 1..Len(pat) : pat[i] = text[o + i]

(* the image references of a that are non-empty and do not start with data: *)
Searchable(a) ==
    {corpusA[a].image_urls[i] : i \in 1..Len(corpusA[a].image_urls)} \
    {r \in RefPool : r = <<>> \/ r[1] = "data:"}

(* the corpus-B filenames whose text contains a searchable reference of a *)
LiteralUnion(a) ==
    {f \in DOMAIN corpusB : \E r \in Searchable(a) : Contains(r, corpusB[f])}

(* the ascending list of a set of filenames *)
Ascending(S) == sorted(CHOOSE q \in Orders(S) : TRUE)

(* the records of the articles of the list fs whose set u[a] is non-empty *)
RECURSIVE RecordsOf(_, _)
RecordsOf(fs, u) ==
    IF fs = <<>> THEN <<>>
    ELSE (IF corpusA[Head(fs)].parses /\ u[Head(fs)] # {}
          THEN <<[aromanian_article |-> Head(fs),
                  romanian_articles |-> Ascending(u[Head(fs)])]>>
          ELSE <<>>) \o RecordsOf(Tail(fs), u)

(* C15: matcher result.  When a run in which every search completed has
   written its output, the output has a record for an article exactly when
   some corpus-B text contains one of its searchable image references as a
   literal substring, and the record lists exactly those files, ascending. *)
C15_RecordsAreLiteralMatches ==
    (mev.op = "write" /\ clean.this) =>
        output.records = RecordsOf(Ascending(DOMAIN corpusA),
                                   [a \in DOMAIN corpusA |-> LiteralUnion(a)])

(* the reference is empty or begins with data: *)
EmptyOrData(r) == IF r = <<>> THEN TRUE ELSE r[1] = "data:"

(* C16: image-filter law.  No search is executed for a reference that is
   empty or begins with data:, the match set changes only by a search, and
   each reference of the list is handled in turn: a filtered one is passed
   over and leaves the match set alone, any other one is searched. *)
C16_FilteredNeverSearched ==
    /\ [](mev.op = "search" => ~EmptyOrData(mev.ref))
    /\ [][(romanian_matches' # romanian_matches /\ romanian_matches' # {}) =>
            mev'.op = "search"]_vars
    /\ [][(mpc = "ref" /\ image_urls # <<>>) =>
            /\ image_urls' = Tail(image_urls)
            /\ mpc' = "ref"
            /\ EmptyOrData(Head(image_urls)) =>
                  (mev'.op = "skip" /\ romanian_matches' = romanian_matches)
            /\ ~EmptyOrData(Head(image_urls)) =>
                  (mev'.op = "search" /\ mev'.ref = Head(image_urls))]_vars

(* an article whose first reference is an inline image and whose second one
   was searched and matched *)
C16_Witness ==
    /\ mev.op = "search"
    /\ Len(corpusA[mev.article].image_urls) = 2
    /\ corpusA[mev.article].image_urls[1] = <<"data:", "a", "b">>
    /\ image_urls = <<>>
    /\ romanian_matches # {}

(* C17: matcher determinism.  Over the same corpora, a run in which every
   search completed writes the output that the run before it wrote, if every
   search of that run completed as well. *)
C17_SameOutputWhenSearchesComplete ==
    [][(mev'.op = "write" /\ output.written /\ clean.last /\ clean.this) =>
        output' = output]_vars

(* C17 as stated: any run writes the output the run before it wrote. *)
C17_SameOutputAlways ==
    [][(mev'.op = "write" /\ output.written) => output' = output]_vars

(* a second run, every search of both runs completed, wrote a record with
   two matches *)
C17_Witness ==
    /\ mev.op = "write"
    /\ mruns + 2 <= MatchRuns
    /\ clean.this
    /\ clean.last
    /\ \E i \in 1..Len(output.records) :
          Len(output.records[i].romanian_articles) = 2

(* C18: matcher search failure.  A search that times out or fails adds no
   match and the loop goes on with the next reference of the same article;
   no article that parses is abandoned; and the run goes on to write the
   output file. *)
C18_SearchFailureContained ==
    /\ [][(mev'.op = "search" /\ mev'.outcome # "done") =>
            /\ romanian_matches' = romanian_matches
            /\ image_urls' = Tail(image_urls)
            /\ mpc' = "ref"
            /\ aromanian_files' = aromanian_files
            /\ correspondences' = correspondences]_vars
    /\ [](mev.op = "article_error" => ~corpusA[mev.article].parses)
    /\ [](mpc = "done" => (output.written /\ output.records = correspondences))
    /\ (mpc \notin {"idle", "done"}) ~> (mpc = "done")

(* a run with a search that did not complete wrote an output with a record *)
C18_Witness ==
    /\ mpc = "done"
    /\ ~clean.this
    /\ output.written
    /\ output.records # <<>>

(* C19: checkpoint schedule.  In crawl_all no fetch is issued while a
   checkpoint is due: after the 10th, 20th, ... newly indexed article of a
   category, and after a category has ended, normally or by an exception,
   index.json equals the in-memory Index and the failed URLs of progress.json
   equal FailedURLs before the next fetch, and before the next category or
   the end of the run. *)
C19_CheckpointBeforeFetch ==
    /\ [](mode = "all" /\ ev.op \in FetchOps => ~due)
    /\ [](mode = "all" /\ pc \in {"next_cat", "done"} => ~due)
    /\ [][(due /\ ~due') =>
            (ev'.op \in {"crash", "start"} \/
             (diskIndex' = SavedIndex' /\ diskFailed' = failed_urls'))]_vars

(* the fetch that follows the 10th newly indexed article of a category *)
C19_Witness ==
    /\ mode = "all"
    /\ ev.op \in FetchOps
    /\ new_articles = 10
    /\ Cardinality(DOMAIN index) = 10
    /\ diskIndex = SavedIndex

(* the pagination-link distance of the pages from the page entry, through
   the pages of okPages: breadth-first layers *)
RECURSIVE Layers(_, _, _, _)
Layers(front, seen, d, okPages) ==
    IF front = {} THEN EmptyMap
    ELSE LET next == UNION {PageLinks(site, p) : p \in front \cap okPages} \ seen
         IN [p \in front |-> d] @@ Layers(next, seen \cup next, d + 1, okPages)

(* the distances in the traversal under way *)
Dist ==
    LET entry == trOrder[1].url
        okPages == {trOrder[i].url : i \in {j \in 1..Len(trOrder) : trOrder[j].ok}}
    IN Layers({entry}, {entry}, 0, okPages)

(* C20: breadth-first order.  Within a traversal the pages are fetched in the
   order of their first enqueue, and no page is fetched before a fetched page
   that is nearer to the entry page, the distance being counted in pagination
   links through the successfully fetched pages. *)
C20_BreadthFirst ==
    trOrder # <<>> =>
        /\ Len(trOrder) <= Len(trEnq)
        /\ \A i \in 1..Len(trOrder) : trOrder[i].url = trEnq[i]
        /\ \A i \in 1..Len(trOrder) : trOrder[i].url \in DOMAIN Dist
        /\ \A i, j \in 1..Len(trOrder) :
              i < j => Dist[trOrder[i].url] <= Dist[trOrder[j].url]

(* four pages fetched, the last one two links away from the entry page *)
C20_Witness ==
    /\ Len(trOrder) = 4
    /\ Dist[trOrder[4].url] = 2
    /\ Dist[trOrder[3].url] = 1
    /\ Dist[trOrder[2].url] = 1

----------------------------------------------------------------------------
(* C21: FailedURLs only grows. No step of a run removes a URL from
   failed_urls (a fetch that succeeds and the indexing of its article
   included); progress.json never loses a URL, whatever step is taken; a
   start loads every URL of progress.json, and a start that follows a run
   which ended with its saves keeps every URL the run had; while a process
   runs, failed_urls holds every URL of progress.json, so that a save cannot
   shrink the file *)
C21_FailedOnlyGrows ==
    /\ [][ /\ (pc \notin {"idle", "done"} /\ pc' # "idle")
                => failed_urls \subseteq failed_urls'
           /\ diskFailed \subseteq diskFailed'
           /\ (pc \in {"idle", "done"} /\ pc' = "next_cat")
                => /\ diskFailed \subseteq failed_urls'
                   /\ (pc = "done" /\ ev.op \in {"finish", "save_stats"})
                        => failed_urls \subseteq failed_urls'
         ]_vars
    /\ [](pc # "idle" => diskFailed \subseteq failed_urls)

(* an article whose URL was loaded from progress.json as failed was fetched
   successfully and has just been indexed, and is still in failed_urls and in
   progress.json *)
C21_Witness ==
    /\ ev.op = "add"
    /\ ev.url \in loadedFailed
    /\ ev.url \in DOMAIN index
    /\ ev.url \in failed_urls
    /\ ev.url \in diskFailed

----------------------------------------------------------------------------
(* C22: page ceiling. In a traversal with ceiling max_pages, visited_pages
   never has more than max_pages elements and at most max_pages page fetches
   are issued; every page fetched, with a failed fetch as with a successful
   one, is in visited_pages and so counts; visited_pages holds no article
   URL, so that the article fetches do not count *)
C22_PageCeiling ==
    /\ Cardinality(visited_pages) <= max_pages
    /\ Len(trOrder) <= max_pages
    /\ \A i \in 1..Len(trOrder) : trOrder[i].url \in visited_pages
    /\ \A u \in visited_pages : ~_is_article_url(u)

(* the ceiling stops a traversal whose queue is not empty: the last page
   fetch failed and filled the ceiling, and with the article fetches of the
   page before it more fetches than the ceiling were issued *)
C22_Witness ==
    /\ pc = "loop"
    /\ pages_to_visit # <<>>
    /\ Head(pages_to_visit) \notin visited_pages
    /\ max_pages > 0
    /\ Len(trOrder) = max_pages
    /\ Cardinality(visited_pages) = max_pages
    /\ ~trOrder[Len(trOrder)].ok
    /\ Len(trOrder) + pg.fetches > max_pages

====
